---- MODULE Spec2Model ----
(***************************************************************************)
(* Rational deduction: ratios of multisets of terms, their composition by  *)
(* cancellation (src/lib.rs, trait Ratio), the multiset utilities it is    *)
(* built on (mod util) and the conversion between ratios and expression    *)
(* trees (From / TryFrom for RatioPair).                                   *)
(*                                                                         *)
(* The library is a set of pure functions.  Each function is an operator   *)
(* computed the way the code computes it, and each action is one call of   *)
(* a function on the inputs held in the state.                             *)
(***************************************************************************)
EXTENDS Integers, Sequences, FiniteSets

VARIABLES
    left,    \* util functions: the left multiset
    right,   \* util functions: the right multiset (a Vec)
    ratios,  \* Ratio functions and From: the ratios passed in, in order
    expr,    \* TryFrom: the expression tree passed in
    eq,      \* the predicate F: the set of pairs <<l, r>> on which eq(l, r) is true
    pc,      \* "start", then the name of the function that was called
    result   \* what the call returned

vars == <<left, right, ratios, expr, eq, pc, result>>

\* The value of an input the call at hand does not take, and of result before
\* the call.
Unused == <<>>

\* ---------------------------------------------------------------- bounds

\* The opaque term type V::Item of the multiset functions.
Term == {"x", "y"}

\* Longest left / right multiset handed to the util functions.
MaxLen == 3

\* Most terms (top and bot together) of a ratio handed to the pair functions.
MaxTerms == 2

\* Most ratios in a sequence handed to compose_by, and most terms of each.
MaxRatios == 3
MaxFoldTerms == 1

\* Most terms (top and bot together) of each of the three ratios whose
\* compositions are nested.
MaxNestTerms == 3

\* Most terms on a side of a ratio converted to a tree, and most children of
\* a tree's root.
MaxSide == 2
MaxChildren == 3

SeqUpTo(S, n) == UNION {[1..k -> S] : k \in 0..n}

RatiosUpTo(S, n) ==
    {r \in [top : SeqUpTo(S, n), bot : SeqUpTo(S, n)] : Len(r.top) + Len(r.bot) <= n}

\* Every predicate on terms, and PartialEq::eq among them.
Predicates == SUBSET (Term \X Term)
PartialEq == {<<t, t>> : t \in Term}

\* ------------------------------------------------------------- mod util

\* The call eq(l, r) of the closure F.
Call(f, l, r) == <<l, r>> \in f

\* The closure of `all` at lib.rs:420-426, run over right from slot i on:
\* the first slot that matches l and is not yet matched is marked, and the
\* scan stops with false; with no such slot the scan ends with true.
\* Returns [keep, matched].
RECURSIVE ScanRight(_, _, _, _, _)
ScanRight(l, r, f, matched, i) ==
    IF i > Len(r) THEN [keep |-> TRUE, matched |-> matched]
    ELSE IF Call(f, l, r[i]) /\ ~matched[i]
         THEN [keep |-> FALSE, matched |-> [matched EXCEPT ![i] = TRUE]]
         ELSE ScanRight(l, r, f, matched, i + 1)

\* The filter over left at lib.rs:418-428, from item k on, collected.
\* Returns [lower, matched].
RECURSIVE FilterLeft(_, _, _, _, _, _)
FilterLeft(l, r, f, matched, k, kept) ==
    IF k > Len(l) THEN [lower |-> kept, matched |-> matched]
    ELSE LET s == ScanRight(l[k], r, f, matched, 1)
         IN  FilterLeft(l, r, f, s.matched, k + 1,
                        IF s.keep THEN Append(kept, l[k]) ELSE kept)

\* right zipped with matched_indices, the unmatched slots kept (lib.rs:429-432).
RECURSIVE Unmatched(_, _, _)
Unmatched(r, matched, i) ==
    IF i > Len(r) THEN <<>>
    ELSE (IF matched[i] THEN <<>> ELSE <<r[i]>>) \o Unmatched(r, matched, i + 1)

\* A variant that consumes no right slot: every left item equal to some
\* right item is dropped, and every right item equal to some left item.
SetDifferenceBy(l, r, f) ==
    [lower |-> SelectSeq(l, LAMBDA a : \A j \in 1..Len(r) : ~Call(f, a, r[j])),
     upper |-> SelectSeq(r, LAMBDA b : \A k \in 1..Len(l) : ~Call(f, l[k], b))]

\* A variant whose scan stops at the first right slot that is equal to the
\* left item, matched or not.
RECURSIVE ScanRightFirstEqual(_, _, _, _, _)
ScanRightFirstEqual(l, r, f, matched, i) ==
    IF i > Len(r) THEN [keep |-> TRUE, matched |-> matched]
    ELSE IF Call(f, l, r[i])
         THEN [keep |-> matched[i], matched |-> [matched EXCEPT ![i] = TRUE]]
         ELSE ScanRightFirstEqual(l, r, f, matched, i + 1)

RECURSIVE FilterLeftFirstEqual(_, _, _, _, _, _)
FilterLeftFirstEqual(l, r, f, matched, k, kept) ==
    IF k > Len(l) THEN [lower |-> kept, matched |-> matched]
    ELSE LET s == ScanRightFirstEqual(l[k], r, f, matched, 1)
         IN  FilterLeftFirstEqual(l, r, f, s.matched, k + 1,
                                  IF s.keep THEN Append(kept, l[k]) ELSE kept)

multiset_symmetric_difference_first_equal(l, r, f) ==
    LET d == FilterLeftFirstEqual(l, r, f, [i \in 1..Len(r) |-> FALSE], 1, <<>>)
    IN  [lower |-> d.lower, upper |-> Unmatched(r, d.matched, 1)]

\* util::multiset_symmetric_difference_by: (left-only residue, right-only
\* residue), here [lower, upper].
multiset_symmetric_difference_by(l, r, f) ==
    LET d == FilterLeft(l, r, f, [i \in 1..Len(r) |-> FALSE], 1, <<>>)
    IN  [lower |-> d.lower, upper |-> Unmatched(r, d.matched, 1)]

\* util::has_intersection_by: any over left of all over right.
has_intersection_by(l, r, f) ==
    \E k \in 1..Len(l) : \A j \in 1..Len(r) : Call(f, l[k], r[j])

\* ---------------------------------------------------------- trait Ratio

\* Ratio::new: a ratio is the pair of its top and bot multisets.
new(top, bot) == [top |-> top, bot |-> bot]

\* A variant that cancels the outer sides (top.top against bot.bot) too.
pair_compose_by_cancel_outer(top, bot, f) ==
    LET d == multiset_symmetric_difference_by(top.bot, bot.top, f)
        o == multiset_symmetric_difference_by(bot.bot, top.top, f)
    IN  new(d.upper \o o.upper, d.lower \o o.lower)

\* A variant that goes on to cancel the product's own bot against its top.
pair_compose_by_reduced(top, bot, f) ==
    LET d == multiset_symmetric_difference_by(top.bot, bot.top, f)
        n == multiset_symmetric_difference_by(d.lower \o bot.bot, d.upper \o top.top, f)
    IN  new(n.upper, n.lower)

\* Ratio::pair_compose_by: top is the left factor, bot the right factor.
pair_compose_by(top, bot, f) ==
    LET d == multiset_symmetric_difference_by(top.bot, bot.top, f)
    IN  new(d.upper \o top.top, d.lower \o bot.bot)

\* Ratio::pair_compose.
pair_compose(top, bot) == pair_compose_by(top, bot, PartialEq)

\* iter.fold(r, |t, b| pair_compose_by(t, b, eq)) at lib.rs:157: the ratios
\* left in the iterator are composed onto the accumulator, front first.
RECURSIVE Fold(_, _, _)
Fold(acc, rest, f) ==
    IF rest = <<>> THEN acc
    ELSE Fold(pair_compose_by(acc, Head(rest), f), Tail(rest), f)

\* A variant that composes each ratio on the left of the accumulator.
RECURSIVE FoldSwapped(_, _, _)
FoldSwapped(acc, rest, f) ==
    IF rest = <<>> THEN acc
    ELSE FoldSwapped(pair_compose_by(Head(rest), acc, f), Tail(rest), f)

compose_by_swapped(rs, f) ==
    IF rs = <<>> THEN new(<<>>, <<>>) ELSE FoldSwapped(Head(rs), Tail(rs), f)

\* Ratio::compose_by: the first ratio seeds the fold; with no first ratio the
\* result is new(V::from_iter(None), V::from_iter(None)).
compose_by(rs, f) ==
    IF rs = <<>> THEN new(<<>>, <<>>) ELSE Fold(Head(rs), Tail(rs), f)

\* Ratio::compose.
compose(rs) == compose_by(rs, PartialEq)

\* How a call of a function declared to return bool ends: it returns a
\* value, or it panics with a message and returns nothing.
Returns(v) == [returned |-> TRUE, value |-> v, panic |-> ""]
Panics(msg) == [returned |-> FALSE, value |-> FALSE, panic |-> msg]

\* The message of todo!().
TodoMessage == "not yet implemented"

\* A variant with the body left in the comment at lib.rs:178-183.
has_cancellation_by_commented(top, bot, f) ==
    Returns(\/ has_intersection_by(top.bot, bot.top, f)
            \/ has_intersection_by(top.top, bot.bot, f))

\* Ratio::has_cancellation_by: the arguments are dropped and todo!() panics.
has_cancellation_by(top, bot, f) == Panics(TodoMessage)

\* Ratio::has_cancellation.
has_cancellation(top, bot) == has_cancellation_by(top, bot, PartialEq)

\* --------------------------------------------- From / TryFrom for RatioPair

\* An expression E is an atom or a group of expressions (trait Expression).
NoAtom == ""
from_atom(a) == [is_group |-> FALSE, atom |-> a, group |-> <<>>]
from_group(g) == [is_group |-> TRUE, atom |-> NoAtom, group |-> g]

\* Expr<E>: the cases of an expression, Atom(E::Atom) or Group(E::Group).
ExprAtom(a) == [case |-> "Atom", atom |-> a, group |-> <<>>]
ExprGroup(g) == [case |-> "Group", atom |-> NoAtom, group |-> g]

\* E into Expr<E>.
into(e) == IF e.is_group THEN ExprGroup(e.group) ELSE ExprAtom(e.atom)

\* Result<RatioPair, RatioPairFromExprError>.
Ok(r) == [ok |-> TRUE, value |-> r, err |-> ""]
Err(e) == [ok |-> FALSE, value |-> new(<<>>, <<>>), err |-> e]

\* A variant that puts the bot group first.
from_bot_first(ratio) ==
    ExprGroup(<<from_group(ratio.bot), from_group(ratio.top)>>)

\* From<RatioPair<E::Group>> for Expr<E>.
from(ratio) ==
    ExprGroup(<<from_group(ratio.top)>> \o <<from_group(ratio.bot)>>)

\* A variant that reads the first two children and never asks for a third.
try_from_first_two(e) ==
    IF e.case = "Atom" THEN Err("NotGroup")
    ELSE IF Len(e.group) >= 2
         THEN LET top == into(e.group[1])
                  bot == into(e.group[2])
              IN  IF top.case = "Group" /\ bot.case = "Group"
                      THEN Ok(new(top.group, bot.group))
                  ELSE IF bot.case = "Group" THEN Err("MissingTopGroup")
                  ELSE IF top.case = "Group" THEN Err("MissingBotGroup")
                  ELSE Err("MissingTopBotGroup")
         ELSE Err("BadGroupShape")

\* TryFrom<Expr<E>> for RatioPair<E::Group>.  The three calls of iter.next()
\* give (Some, Some, None) exactly when the group has two children.
try_from(e) ==
    IF e.case = "Atom" THEN Err("NotGroup")
    ELSE IF Len(e.group) = 2
         THEN LET top == into(e.group[1])
                  bot == into(e.group[2])
              IN  IF top.case = "Group" /\ bot.case = "Group"
                      THEN Ok(new(top.group, bot.group))
                  ELSE IF bot.case = "Group" THEN Err("MissingTopGroup")
                  ELSE IF top.case = "Group" THEN Err("MissingBotGroup")
                  ELSE Err("MissingTopBotGroup")
         ELSE Err("BadGroupShape")

\* ------------------------------------------------------------ inputs

\* Two multisets and a predicate, for the util functions.
InitUtil ==
    /\ left \in SeqUpTo(Term, MaxLen)
    /\ right \in SeqUpTo(Term, MaxLen)
    /\ eq \in Predicates
    /\ ratios = Unused
    /\ expr = Unused
    /\ pc = "start"
    /\ result = Unused

\* Two ratios and a predicate, for the pair functions.
InitPair ==
    /\ ratios \in [1..2 -> RatiosUpTo(Term, MaxTerms)]
    /\ eq \in Predicates
    /\ left = Unused
    /\ right = Unused
    /\ expr = Unused
    /\ pc = "start"
    /\ result = Unused

\* A sequence of ratios and a predicate, for compose_by.
InitCompose ==
    /\ ratios \in SeqUpTo(RatiosUpTo(Term, MaxFoldTerms), MaxRatios)
    /\ eq \in Predicates
    /\ left = Unused
    /\ right = Unused
    /\ expr = Unused
    /\ pc = "start"
    /\ result = Unused

\* Three ratios a caller composes pairwise; result holds what is left to
\* compose, at first the three ratios.
InitNest ==
    /\ ratios \in [1..3 -> RatiosUpTo(Term, MaxNestTerms)]
    /\ eq = PartialEq
    /\ left = Unused
    /\ right = Unused
    /\ expr = Unused
    /\ pc = "start"
    /\ result = ratios

\* The terms of a ratio of expressions, the children of a tree's root, and
\* the trees handed to try_from.
TermExprs == {from_atom("x"), from_group(<<from_atom("y")>>)}
ChildExprs == {from_atom("x")} \cup {from_group(g) : g \in SeqUpTo(TermExprs, MaxSide)}
Exprs == {ExprAtom("x")} \cup {ExprGroup(g) : g \in SeqUpTo(ChildExprs, MaxChildren)}

\* A tree to convert to a ratio, or a ratio to convert to a tree and back.
InitTree ==
    /\ \/ /\ ratios = <<>>
          /\ expr \in Exprs
       \/ /\ ratios \in [1..1 -> [top : SeqUpTo(TermExprs, MaxSide),
                                  bot : SeqUpTo(TermExprs, MaxSide)]]
          /\ expr = Unused
    /\ eq = PartialEq
    /\ left = Unused
    /\ right = Unused
    /\ pc = "start"
    /\ result = Unused

\* ------------------------------------------------------------ calls

MultisetSymmetricDifferenceBy ==
    /\ pc = "start"
    /\ Len(ratios) = 0
    /\ result' = multiset_symmetric_difference_by(left, right, eq)
    /\ pc' = "multiset_symmetric_difference_by"
    /\ UNCHANGED <<left, right, ratios, expr, eq>>

HasIntersectionBy ==
    /\ pc = "start"
    /\ Len(ratios) = 0
    /\ result' = has_intersection_by(left, right, eq)
    /\ pc' = "has_intersection_by"
    /\ UNCHANGED <<left, right, ratios, expr, eq>>

PairComposeBy ==
    /\ pc = "start"
    /\ Len(ratios) = 2
    /\ result' = pair_compose_by(ratios[1], ratios[2], eq)
    /\ pc' = "pair_compose_by"
    /\ UNCHANGED <<left, right, ratios, expr, eq>>

HasCancellationBy ==
    /\ pc = "start"
    /\ Len(ratios) = 2
    /\ result' = has_cancellation_by(ratios[1], ratios[2], eq)
    /\ pc' = "has_cancellation_by"
    /\ UNCHANGED <<left, right, ratios, expr, eq>>

HasCancellation ==
    /\ pc = "start"
    /\ Len(ratios) = 2
    /\ result' = has_cancellation(ratios[1], ratios[2])
    /\ pc' = "has_cancellation"
    /\ UNCHANGED <<left, right, ratios, expr, eq>>

ComposeBy ==
    /\ pc = "start"
    /\ result' = compose_by(ratios, eq)
    /\ pc' = "compose_by"
    /\ UNCHANGED <<left, right, ratios, expr, eq>>

Compose ==
    /\ pc = "start"
    /\ result' = compose(ratios)
    /\ pc' = "compose"
    /\ UNCHANGED <<left, right, ratios, expr, eq>>

\* The ratio is converted to a tree.
From ==
    /\ pc = "start"
    /\ Len(ratios) = 1
    /\ expr' = from(ratios[1])
    /\ pc' = "from"
    /\ UNCHANGED <<left, right, ratios, eq, result>>

\* The tree passed in, or the tree From made, is converted to a ratio.
TryFrom ==
    /\ \/ pc = "start" /\ Len(ratios) = 0
       \/ pc = "from"
    /\ result' = try_from(expr)
    /\ pc' = "try_from"
    /\ UNCHANGED <<left, right, ratios, expr, eq>>

\* The caller composes two neighbours of what is left with pair_compose and
\* puts the product in their place.
PairComposeAt(i) ==
    /\ i \in 1..(Len(result) - 1)
    /\ result' = SubSeq(result, 1, i - 1)
                 \o <<pair_compose(result[i], result[i + 1])>>
                 \o SubSeq(result, i + 2, Len(result))
    /\ pc' = "pair_compose"
    /\ UNCHANGED <<left, right, ratios, expr, eq>>

PairComposeNeighbours == \E i \in 1..2 : PairComposeAt(i)

\* ------------------------------------------------------ specifications

\* Calls of the util functions and of the functions of two ratios.
Init == InitUtil \/ InitPair

Next ==
    \/ MultisetSymmetricDifferenceBy
    \/ HasIntersectionBy
    \/ PairComposeBy
    \/ HasCancellationBy
    \/ HasCancellation

Spec == Init /\ [][Next]_vars

\* Calls of compose_by on a sequence of ratios.
NextCompose == ComposeBy \/ Compose

SpecCompose == InitCompose /\ [][NextCompose]_vars

\* Three ratios composed pairwise in either order.
NextNest == PairComposeNeighbours

SpecNest == InitNest /\ [][NextNest]_vars

\* Conversions between trees and ratios.
NextTree == From \/ TryFrom

SpecTree == InitTree /\ [][NextTree]_vars

\* ------------------------------------------------------------ properties

\* How many times v occurs in s.
Count(s, v) == Cardinality({i \in 1..Len(s) : s[i] = v})

Max(m, n) == IF m >= n THEN m ELSE n

\* s is t with some items left out, the rest in t's order.
RECURSIVE IsSubsequence(_, _)
IsSubsequence(s, t) ==
    IF s = <<>> THEN TRUE
    ELSE IF t = <<>> THEN FALSE
    ELSE IF Head(s) = Head(t) THEN IsSubsequence(Tail(s), Tail(t))
    ELSE IsSubsequence(s, Tail(t))

\* Two ratios with the same terms, with the same multiplicities, on each side.
SameTerms(r, q) ==
    \A v \in Term : /\ Count(r.top, v) = Count(q.top, v)
                    /\ Count(r.bot, v) = Count(q.bot, v)

Empty == new(<<>>, <<>>)

\* C1: pair_compose_by(a, b, eq) has as top the right-only residue of
\* cancelling a.bot against b.top followed by a.top unchanged, and as bot the
\* left-only residue followed by b.bot unchanged, for every predicate; with
\* native equality ([s],[t]) composed with ([t],[u]) is ([s],[u]), and
\* ([],[s]) composed with ([t],[]), s # t, is ([t],[s]).
C1_PairComposeBy ==
    pc = "pair_compose_by" =>
        LET a == ratios[1]
            b == ratios[2]
            d == multiset_symmetric_difference_by(a.bot, b.top, eq)
        IN  /\ result.top = d.upper \o a.top
            /\ result.bot = d.lower \o b.bot
            /\ Len(result.top) >= Len(a.top)
            /\ Len(result.bot) >= Len(b.bot)
            /\ SubSeq(result.top, Len(result.top) - Len(a.top) + 1, Len(result.top)) = a.top
            /\ SubSeq(result.bot, Len(result.bot) - Len(b.bot) + 1, Len(result.bot)) = b.bot
            /\ eq = PartialEq =>
                 \A s, t, u \in Term :
                    /\ (a = new(<<s>>, <<t>>) /\ b = new(<<t>>, <<u>>))
                          => result = new(<<s>>, <<u>>)
                    /\ (a = new(<<>>, <<s>>) /\ b = new(<<t>>, <<>>) /\ s # t)
                          => result = new(<<t>>, <<s>>)

\* ([x],[y]) composed with ([y],[x]) is ([x],[x]): y cancels, and the x of
\* a.top and the x of b.bot both stay.
C1_Witness ==
    /\ pc = "pair_compose_by"
    /\ eq = PartialEq
    /\ ratios = <<new(<<"x">>, <<"y">>), new(<<"y">>, <<"x">>)>>
    /\ result = new(<<"x">>, <<"x">>)

\* C2: multiset_symmetric_difference_by cancels one for one: as many left
\* items are dropped as right slots are consumed, each residue is a
\* subsequence of its input, and with native equality a value occurring cL
\* times in left and cR times in right occurs max(0, cL - cR) times in the
\* left residue and max(0, cR - cL) times in the right residue.
C2_OneForOne ==
    pc = "multiset_symmetric_difference_by" =>
        /\ Len(left) - Len(result.lower) = Len(right) - Len(result.upper)
        /\ IsSubsequence(result.lower, left)
        /\ IsSubsequence(result.upper, right)
        /\ eq = PartialEq =>
             \A v \in Term :
                /\ Count(result.lower, v) = Max(0, Count(left, v) - Count(right, v))
                /\ Count(result.upper, v) = Max(0, Count(right, v) - Count(left, v))

\* left [x, x] against right [x] leaves [x] on the left and nothing on the right.
C2_Witness ==
    /\ pc = "multiset_symmetric_difference_by"
    /\ eq = PartialEq
    /\ left = <<"x", "x">>
    /\ right = <<"x">>
    /\ result = [lower |-> <<"x">>, upper |-> <<>>]

\* C3: with native equality, composing three ratios pairwise gives the same
\* terms with the same multiplicities on each side whichever pair is composed
\* first: pair_compose(pair_compose(a, b), c) and
\* pair_compose(a, pair_compose(b, c)).
C3_Associative ==
    (pc = "pair_compose" /\ Len(result) = 1) =>
        LET a == ratios[1]
            b == ratios[2]
            c == ratios[3]
        IN  /\ SameTerms(result[1], pair_compose(pair_compose(a, b), c))
            /\ SameTerms(result[1], pair_compose(a, pair_compose(b, c)))

\* Both joints cancel, a term is left over on each side, and the two nestings
\* differ as sequences.
C3_Witness ==
    /\ pc = "pair_compose"
    /\ Len(result) = 1
    /\ Len(result[1].top) > 0
    /\ Len(result[1].bot) > 0
    /\ Len(pair_compose(ratios[1], ratios[2]).bot) < Len(ratios[1].bot) + Len(ratios[2].bot)
    /\ Len(pair_compose(ratios[2], ratios[3]).top) < Len(ratios[2].top) + Len(ratios[3].top)
    /\ pair_compose(pair_compose(ratios[1], ratios[2]), ratios[3])
          # pair_compose(ratios[1], pair_compose(ratios[2], ratios[3]))

\* C4: compose_by is the left fold of pair_compose_by seeded with the first
\* ratio: the empty ratio for no ratios, r1 for [r1], and
\* pair_compose_by(compose_by(all but the last), the last) for two or more;
\* compose is the same with native equality.
C4_LeftFold ==
    /\ pc = "compose_by" =>
        LET n == Len(ratios)
        IN  /\ n = 0 => result = Empty
            /\ n = 1 => result = ratios[1]
            /\ n >= 2 => result = pair_compose_by(
                            compose_by(SubSeq(ratios, 1, n - 1), eq), ratios[n], eq)
            /\ n = 3 => result = pair_compose_by(
                            pair_compose_by(ratios[1], ratios[2], eq), ratios[3], eq)
    /\ pc = "compose" =>
        LET n == Len(ratios)
        IN  /\ n = 0 => result = Empty
            /\ n = 3 => result = pair_compose(pair_compose(ratios[1], ratios[2]), ratios[3])

\* Three ratios whose fold cancels at both joints.
C4_Witness ==
    /\ pc = "compose_by"
    /\ eq = PartialEq
    /\ ratios = <<new(<<>>, <<"x">>), new(<<"x">>, <<>>), new(<<"y">>, <<>>)>>
    /\ result = new(<<"y">>, <<>>)

\* C5: the ratio of two empty multisets is a two-sided identity of
\* pair_compose_by for every predicate: composed on either side of r it
\* gives r, terms in the same order.
C5_Identity ==
    pc = "pair_compose_by" =>
        /\ ratios[1] = Empty => result = ratios[2]
        /\ ratios[2] = Empty => result = ratios[1]

\* r = ([x],[x]) composed with the empty ratio under the predicate that is
\* always true.
C5_Witness ==
    /\ pc = "pair_compose_by"
    /\ eq = Term \X Term
    /\ ratios = <<new(<<"x">>, <<"x">>), Empty>>
    /\ result = new(<<"x">>, <<"x">>)

\* C6: try_from gives exactly one outcome for every tree: NotGroup for an
\* Atom, BadGroupShape for a Group whose number of children is not two,
\* MissingTopGroup for [Atom, Group], MissingBotGroup for [Group, Atom],
\* MissingTopBotGroup for [Atom, Atom], and for [Group, Group] the ratio of
\* the first child's children over the second child's children.
C6_TryFromOutcome ==
    pc = "try_from" =>
        LET n == IF expr.case = "Group" THEN Len(expr.group) ELSE 0
            isGroup(i) == expr.group[i].is_group
        IN  /\ expr.case = "Atom" <=> result = Err("NotGroup")
            /\ (expr.case = "Group" /\ n # 2) <=> result = Err("BadGroupShape")
            /\ (expr.case = "Group" /\ n = 2 /\ ~isGroup(1) /\ isGroup(2))
                  <=> result = Err("MissingTopGroup")
            /\ (expr.case = "Group" /\ n = 2 /\ isGroup(1) /\ ~isGroup(2))
                  <=> result = Err("MissingBotGroup")
            /\ (expr.case = "Group" /\ n = 2 /\ ~isGroup(1) /\ ~isGroup(2))
                  <=> result = Err("MissingTopBotGroup")
            /\ (expr.case = "Group" /\ n = 2 /\ isGroup(1) /\ isGroup(2))
                  <=> result.ok
            /\ result.ok => result = Ok(new(expr.group[1].group, expr.group[2].group))

\* A Group of three Groups fails with BadGroupShape.
C6_Witness ==
    /\ pc = "try_from"
    /\ expr.case = "Group"
    /\ Len(expr.group) = 3
    /\ \A i \in 1..3 : expr.group[i].is_group
    /\ result = Err("BadGroupShape")

\* C7: has_intersection_by(left, right, eq) is true exactly when some left
\* item matches some right item.
C7_HasIntersection ==
    pc = "has_intersection_by" =>
        result = (\E k \in 1..Len(left) : \E j \in 1..Len(right) :
                      Call(eq, left[k], right[j]))

\* C8: a ratio converted to a tree is a Group of exactly two Groups, the
\* first holding the top's terms and the second the bot's, in order, and
\* try_from on that tree gives the ratio back, order kept.
C8_RoundTrip ==
    /\ pc = "from" =>
        /\ expr.case = "Group"
        /\ Len(expr.group) = 2
        /\ expr.group[1] = from_group(ratios[1].top)
        /\ expr.group[2] = from_group(ratios[1].bot)
    /\ (pc = "try_from" /\ Len(ratios) = 1) => result = Ok(ratios[1])

\* A ratio with two different terms on top and an empty bot, back from its tree.
C8_Witness ==
    /\ pc = "try_from"
    /\ Len(ratios) = 1
    /\ Len(ratios[1].top) = 2
    /\ ratios[1].top[1] # ratios[1].top[2]
    /\ ratios[1].bot = <<>>
    /\ result.ok

\* C9: has_cancellation_by, and has_cancellation which calls it, return no
\* boolean: every call ends in the panic of todo!(), whatever its arguments.
C9_NotImplemented ==
    pc \in {"has_cancellation_by", "has_cancellation"} =>
        /\ ~result.returned
        /\ result.panic = TodoMessage

\* A call on two ratios that share a term between the first's bot and the
\* second's top.
C9_Witness ==
    /\ pc = "has_cancellation_by"
    /\ eq = PartialEq
    /\ ratios = <<new(<<>>, <<"x">>), new(<<"x">>, <<>>)>>
    /\ result = Panics(TodoMessage)

\* C10: cancellation is exhaustive for any predicate: no surviving left item
\* l and surviving right item r have eq(l, r); so in the product of
\* pair_compose_by no term of bot that came from a.bot matches a term of top
\* that came from b.top.
C10_Exhaustive ==
    /\ pc = "multiset_symmetric_difference_by" =>
        \A i \in 1..Len(result.lower) : \A j \in 1..Len(result.upper) :
            ~Call(eq, result.lower[i], result.upper[j])
    /\ pc = "pair_compose_by" =>
        LET nb == Len(result.bot) - Len(ratios[2].bot)
            nt == Len(result.top) - Len(ratios[1].top)
        IN  \A i \in 1..nb : \A j \in 1..nt :
                ~Call(eq, result.bot[i], result.top[j])

\* Under a predicate that is neither symmetric nor reflexive, one pair
\* cancels and an item survives on each side.
C10_Witness ==
    /\ pc = "multiset_symmetric_difference_by"
    /\ eq = {<<"x", "y">>}
    /\ left = <<"x", "y">>
    /\ right = <<"y", "x">>
    /\ result = [lower |-> <<"y">>, upper |-> <<"x">>]

====
